---- MODULE Spec2Model ----
(***************************************************************************)
(* A model of two client-side flows of the Vertex AI SDK:                  *)
(*                                                                         *)
(*   - metadata artifacts (google/cloud/aiplatform/metadata/artifact.py):  *)
(*     Artifact.create, Artifact.get_with_uri and the                      *)
(*     VertexResourceArtifactResolver, run by concurrent callers against   *)
(*     one metadata store;                                                 *)
(*   - ReasoningEngine.create and _prepare                                 *)
(*     (vertexai/reasoning_engines/_reasoning_engines.py): validation,     *)
(*     staging to object storage, the create RPC and the re-fetch.         *)
(*                                                                         *)
(* The remote services (metadata store, object storage, reasoning engine   *)
(* service) are modelled by the answers they can give at each call site.   *)
(***************************************************************************)
EXTENDS Naturals, Sequences, FiniteSets

\* ------------------------------------------------------------------ bounds

\* Artifacts the metadata store can hold before creation is cut off.
MaxArtifacts == 2

\* Callers of the metadata API that run concurrently.
Callers == {1, 2}

\* ReasoningEngine.create calls that may be started.
MaxCalls == 2

\* Lines in a requirements list or file.
MaxLines == 2

\* "/"-separated segments in one component of a resource name.
MaxSegments == 2

\* ------------------------------------------------ metadata: value spaces

VertexModelTitle == "google.VertexModel"

SchemaTitles == {VertexModelTitle, "system.Dataset"}

Uris == {"u1", "u2"}

\* Vertex resources (models.Model instances) a caller may link.
Resources == {"m1", "m2"}

NoRes == "none"

\* resource_id arguments of Artifact.create: None or a caller-chosen id.
NoId == <<"none", 0>>

UserIds == {<<"user", 1>>}

GenId(n) == <<"gen", n>>

NoArt == [id |-> NoId, schema_title |-> "", uri |-> "", create_time |-> 0]

\* What a call hands back: an Artifact handle, None, or a raised exception.
Return(a) == [kind |-> "artifact", art |-> a, exc |-> ""]

ReturnNone == [kind |-> "none", art |-> NoArt, exc |-> ""]

Raise(e) == [kind |-> "raise", art |-> NoArt, exc |-> e]

NoRet == [kind |-> "pending", art |-> NoArt, exc |-> ""]

Call(rpc, resp) == [rpc |-> rpc, resp |-> resp]

NoPrev == [valid |-> FALSE, id |-> NoId, n |-> 0]

VARIABLES
  store,    \* the metadata store: artifacts in creation order
  clock,    \* the metadata service's clock, stamped on each created artifact
  mpc,      \* per caller: "idle", or "roc_create" between resolve and create
  marg,     \* per caller in "roc_create": the resource, the snapshot of rocDone taken
            \* at the start, and whether another resolve_or_create created meanwhile
  rocDone,  \* per resource: the last completed resolve_or_create with no write since
  last      \* the metadata call that completed last, with what it did and returned

metaVars == <<store, clock, mpc, marg, rocDone, last>>

VARIABLES
  epc,      \* per create call: where ReasoningEngine.create stands
  inp,      \* per create call: the arguments and the local environment it reads
  obj,      \* per create call: the object to deploy (the clone, when one was made)
  reqs,     \* per create call: the normalized requirements sequence
  elog,     \* per create call: the storage and transport calls made so far
  err,      \* per create call: the exception that ended it
  respec,   \* per create call: the ReasoningEngineSpec handed to the create RPC
  warned,   \* per create call: whether the schema failed and a warning was logged
  lro,      \* per create call: the operation future create holds
  svc,      \* per create call: what the service says of the operation when polled
  handle,   \* per create call: the ReasoningEngine handle returned
  sent,     \* per create call: the content it wrote under each blob name
  bucket,   \* object storage: the staging bucket, with its name and location once
            \* it exists
  blobs,    \* object storage: the content stored under each blob name
  engines,  \* the reasoning engine service: names of the resources created
  ncalls    \* create calls started so far

engVars == <<epc, inp, obj, reqs, elog, err, respec, warned, lro, svc, handle, sent, bucket,
             blobs, engines, ncalls>>

VARIABLES
  rn        \* a resource name on its way from components to string and back

vars == <<metaVars, engVars, rn>>

\* ------------------------------------------------ metadata: the service

\* metadata_utils.make_gcp_resource_url: the canonical uri of a resource.
make_gcp_resource_url(r) == IF r = "m1" THEN "u1" ELSE "u2"

\* metadata_utils.make_filter_string: equality on schema title and uri.
make_filter_string(title, uri) == [schema_title |-> title, uri |-> uri]

\* A get_with_uri filter that constrains nothing.
uri_filter_all(uri) == [schema_title |-> "", uri |-> ""]

\* The filter get_with_uri sends: f'uri = "{uri}"', no constraint on the title.
uri_filter(uri) == [schema_title |-> "", uri |-> uri]

Matches(a, flt) ==
  /\ (flt.schema_title # "" => a.schema_title = flt.schema_title)
  /\ (flt.uri # "" => a.uri = flt.uri)

\* client.list_artifacts: the stored artifacts the filter selects.
list_artifacts(st, flt) == {st[i] : i \in {j \in DOMAIN st : Matches(st[j], flt)}}

\* The orders in which the service may hand a set of matches back.
ListOrders(S) ==
  {s \in [1..Cardinality(S) -> S] : \A x \in S : \E i \in DOMAIN s : s[i] = x}

\* client.create_artifact: AlreadyExists when the requested id is taken, otherwise
\* a new artifact (with a generated id when none was requested) stamped by the
\* clock. The clock advances with every create: no two artifacts share a stamp.
create_artifact(st, clk, title, rid, uri) ==
  IF rid # NoId /\ \E i \in DOMAIN st : st[i].id = rid
  THEN [resp |-> "AlreadyExists", art |-> NoArt, store |-> st]
  ELSE LET a == [id |-> IF rid = NoId THEN GenId(Len(st) + 1) ELSE rid,
                 schema_title |-> title, uri |-> uri, create_time |-> clk]
       IN [resp |-> "ok", art |-> a, store |-> Append(st, a)]

CountDup(st, title, uri) ==
  Cardinality({i \in DOMAIN st : st[i].schema_title = title /\ st[i].uri = uri})

\* ------------------------------------------------ metadata: the client code

\* _create with the disabled fallback restored: AlreadyExists is logged and None returned.
_create_swallow(r) ==
  IF r.resp = "AlreadyExists" THEN ReturnNone ELSE Return(r.art)

\* _Artifact._create: the handle of the created resource; AlreadyExists is re-raised.
_create(r) ==
  IF r.resp = "AlreadyExists" THEN Raise("AlreadyExists") ELSE Return(r.art)

\* get_with_uri without its emptiness check raising: None comes back on no match.
get_with_uri_none(listed) ==
  IF listed = <<>> THEN ReturnNone ELSE Return(listed[1])

\* Artifact.get_with_uri, after the list call: ValueError on no match, otherwise
\* the first listed artifact.
get_with_uri(listed) ==
  IF listed = <<>> THEN Raise("ValueError") ELSE Return(listed[1])

\* list.sort(key=lambda a: a.create_time): a stable ascending sort.
InsertByCreateTime(s, x) ==
  LET k == Cardinality({i \in DOMAIN s : s[i].create_time <= x.create_time})
  IN SubSeq(s, 1, k) \o <<x>> \o SubSeq(s, k + 1, Len(s))

RECURSIVE SortByCreateTime(_)
SortByCreateTime(s) ==
  IF s = <<>> THEN <<>>
  ELSE InsertByCreateTime(SortByCreateTime(SubSeq(s, 1, Len(s) - 1)), s[Len(s)])

\* resolve_vertex_resource with the sort left out: the last listed match.
resolve_unsorted(listed) ==
  IF listed # <<>> THEN Return(listed[Len(listed)]) ELSE ReturnNone

\* A resolve that sorts the matches and takes the first.
resolve_oldest(listed) ==
  LET artifacts == SortByCreateTime(listed)
  IN IF artifacts # <<>> THEN Return(artifacts[1]) ELSE ReturnNone

\* VertexResourceArtifactResolver.resolve_vertex_resource, after the list call:
\* the most recently created match, or None.
resolve_vertex_resource(listed) ==
  LET artifacts == SortByCreateTime(listed)
  IN IF artifacts # <<>> THEN Return(artifacts[Len(artifacts)]) ELSE ReturnNone

\* A create that looks for an existing artifact of the resource first and hands it
\* back instead of creating.
create_if_absent(st, clk, r) ==
  LET found == list_artifacts(st, make_filter_string(VertexModelTitle,
                                                     make_gcp_resource_url(r)))
      c == create_artifact(st, clk, VertexModelTitle, NoId, make_gcp_resource_url(r))
  IN IF found # {}
     THEN [ret |-> Return(CHOOSE a \in found : TRUE), store |-> st,
           calls |-> <<Call("wait", "ok"), Call("list_artifacts", "ok")>>]
     ELSE [ret |-> _create(c), store |-> c.store,
           calls |-> <<Call("wait", "ok"), Call("create_artifact", c.resp)>>]

\* VertexResourceArtifactResolver.create_vertex_resource_artifact: wait for the
\* resource, then one Artifact.create with no resource_id; nothing is listed.
create_vertex_resource_artifact(st, clk, r) ==
  LET c == create_artifact(st, clk, VertexModelTitle, NoId, make_gcp_resource_url(r))
  IN [ret |-> _create(c), store |-> c.store,
      calls |-> <<Call("wait", "ok"), Call("create_artifact", c.resp)>>]

\* resolve_or_create_resource_artifact, second half: reached only when resolve
\* returned None; creates without looking at the store again.
resolve_or_create_create(st, clk, r) ==
  create_vertex_resource_artifact(st, clk, r)

\* ------------------------------------------------ metadata: the calls

NoLast ==
  [op |-> "none", res |-> NoRes, title |-> "", uri |-> "", rid |-> NoId,
   listed |-> <<>>, ret |-> NoRet, calls |-> <<>>, before |-> 0, after |-> 0,
   prev |-> NoPrev, raced |-> FALSE, n |-> 0]

NoArg == [res |-> NoRes, prev |-> NoPrev, raced |-> FALSE]

MetaInit ==
  /\ store = <<>>
  /\ clock = 1
  /\ mpc = [p \in Callers |-> "idle"]
  /\ marg = [p \in Callers |-> NoArg]
  /\ rocDone = [r \in Resources |-> NoPrev]
  /\ last = NoLast

\* A write by caller p ends every "no writer since" window but p's own.
Invalidated(p) ==
  [q \in Callers |-> IF q = p THEN marg[q] ELSE [marg[q] EXCEPT !.prev = NoPrev]]

\* Artifact.create(schema_title, resource_id=rid, uri=uri): one create_artifact call.
ArtifactCreate(p, title, rid, uri) ==
  /\ mpc[p] = "idle"
  /\ LET c == create_artifact(store, clock, title, rid, uri)
     IN /\ c.resp = "ok" => Len(store) < MaxArtifacts
        /\ store' = c.store
        /\ clock' = IF c.resp = "ok" THEN clock + 1 ELSE clock
        /\ rocDone' = IF c.resp = "ok" THEN [r \in Resources |-> NoPrev] ELSE rocDone
        /\ marg' = IF c.resp = "ok" THEN Invalidated(p) ELSE marg
        /\ last' = [NoLast EXCEPT !.op = "create", !.title = title,
                      !.uri = uri, !.rid = rid, !.ret = _create(c),
                      !.calls = <<Call("create_artifact", c.resp)>>,
                      !.before = CountDup(store, title, uri),
                      !.after = CountDup(c.store, title, uri),
                      !.n = Len(c.store)]
  /\ UNCHANGED <<mpc, engVars, rn>>

\* Artifact.get_with_uri(uri): one list call, then the choice among the matches.
GetWithUri(p, uri) ==
  /\ mpc[p] = "idle"
  /\ \E listed \in ListOrders(list_artifacts(store, uri_filter(uri))) :
       last' = [NoLast EXCEPT !.op = "get_with_uri", !.uri = uri,
                  !.listed = listed, !.ret = get_with_uri(listed),
                  !.calls = <<Call("list_artifacts", "ok")>>,
                  !.n = Len(store)]
  /\ UNCHANGED <<store, clock, mpc, marg, rocDone, engVars, rn>>

\* The list call of resolve_vertex_resource for resource r.
ResolveListing(r) ==
  ListOrders(list_artifacts(store,
    make_filter_string(VertexModelTitle, make_gcp_resource_url(r))))

\* VertexResourceArtifactResolver.resolve_vertex_resource(resource), called alone.
ResolveVertexResource(p, r) ==
  /\ mpc[p] = "idle"
  /\ \E listed \in ResolveListing(r) :
       last' = [NoLast EXCEPT !.op = "resolve_vertex_resource", !.res = r,
                  !.title = VertexModelTitle, !.uri = make_gcp_resource_url(r),
                  !.listed = listed, !.ret = resolve_vertex_resource(listed),
                  !.calls = <<Call("wait", "ok"), Call("list_artifacts", "ok")>>,
                  !.n = Len(store)]
  /\ UNCHANGED <<store, clock, mpc, marg, rocDone, engVars, rn>>

\* VertexResourceArtifactResolver.create_vertex_resource_artifact(resource), called alone.
CreateVertexResourceArtifact(p, r) ==
  /\ mpc[p] = "idle"
  /\ Len(store) < MaxArtifacts
  /\ LET c == create_vertex_resource_artifact(store, clock, r)
         u == make_gcp_resource_url(r)
     IN /\ store' = c.store
        /\ clock' = IF c.store # store THEN clock + 1 ELSE clock
        /\ rocDone' = IF c.store # store THEN [x \in Resources |-> NoPrev] ELSE rocDone
        /\ marg' = IF c.store # store THEN Invalidated(p) ELSE marg
        /\ last' = [NoLast EXCEPT !.op = "create_vertex_resource_artifact", !.res = r, !.title = VertexModelTitle, !.uri = u,
                      !.ret = c.ret, !.calls = c.calls,
                      !.before = CountDup(store, VertexModelTitle, u),
                      !.after = CountDup(c.store, VertexModelTitle, u),
                      !.n = Len(c.store)]
  /\ UNCHANGED <<mpc, engVars, rn>>

\* resolve_or_create_resource_artifact(resource), first half: resolve; an artifact
\* found is returned at once, None leads on to the create.
ResolveOrCreate(p, r) ==
  /\ mpc[p] = "idle"
  /\ \E listed \in ResolveListing(r) :
       LET artifact == resolve_vertex_resource(listed)
       IN IF artifact.kind = "artifact"
          THEN /\ last' = [NoLast EXCEPT !.op = "resolve_or_create_resource_artifact",
                             !.res = r, !.title = VertexModelTitle,
                             !.uri = make_gcp_resource_url(r), !.listed = listed,
                             !.ret = artifact,
                             !.calls = <<Call("wait", "ok"), Call("list_artifacts", "ok")>>,
                             !.before = CountDup(store, VertexModelTitle,
                                                 make_gcp_resource_url(r)),
                             !.after = CountDup(store, VertexModelTitle,
                                                make_gcp_resource_url(r)),
                             !.prev = rocDone[r], !.n = Len(store)]
               /\ rocDone' = [rocDone EXCEPT ![r] =
                                [valid |-> TRUE, id |-> artifact.art.id, n |-> Len(store)]]
               /\ UNCHANGED <<mpc, marg>>
          ELSE /\ mpc' = [mpc EXCEPT ![p] = "roc_create"]
               /\ marg' = [marg EXCEPT ![p] = [res |-> r, prev |-> rocDone[r], raced |-> FALSE]]
               /\ UNCHANGED <<rocDone, last>>
  /\ UNCHANGED <<store, clock, engVars, rn>>

\* resolve_or_create_resource_artifact(resource), second half: the create.
ResolveOrCreateCreate(p) ==
  /\ mpc[p] = "roc_create"
  /\ Len(store) < MaxArtifacts
  /\ LET r == marg[p].res
         u == make_gcp_resource_url(r)
         c == resolve_or_create_create(store, clock, r)
     IN /\ store' = c.store
        /\ clock' = IF c.store # store THEN clock + 1 ELSE clock
        /\ rocDone' = [x \in Resources |->
                         IF x = r /\ c.ret.kind = "artifact"
                         THEN [valid |-> TRUE, id |-> c.ret.art.id, n |-> Len(c.store)]
                         ELSE IF c.store # store THEN NoPrev ELSE rocDone[x]]
        /\ marg' = [q \in Callers |->
                      IF q = p THEN NoArg
                      ELSE IF c.store # store
                      THEN [marg[q] EXCEPT !.prev = NoPrev,
                              !.raced = @ \/ (mpc[q] = "roc_create" /\ marg[q].res = r)]
                      ELSE marg[q]]
        /\ last' = [NoLast EXCEPT !.op = "resolve_or_create_resource_artifact",
                      !.res = r, !.title = VertexModelTitle, !.uri = u,
                      !.ret = c.ret,
                      !.calls = <<Call("wait", "ok"), Call("list_artifacts", "ok")>>
                                \o c.calls,
                      !.before = CountDup(store, VertexModelTitle, u),
                      !.after = CountDup(c.store, VertexModelTitle, u),
                      !.prev = marg[p].prev, !.raced = marg[p].raced, !.n = Len(c.store)]
  /\ mpc' = [mpc EXCEPT ![p] = "idle"]
  /\ UNCHANGED <<engVars, rn>>

MetaNext ==
  \E p \in Callers :
    \/ \E title \in SchemaTitles, rid \in UserIds \cup {NoId}, uri \in Uris :
         ArtifactCreate(p, title, rid, uri)
    \/ \E uri \in Uris : GetWithUri(p, uri)
    \/ \E r \in Resources : ResolveVertexResource(p, r)
    \/ \E r \in Resources : CreateVertexResourceArtifact(p, r)
    \/ \E r \in Resources : ResolveOrCreate(p, r)
    \/ ResolveOrCreateCreate(p)

\* ------------------------------------------------ reasoning engine: value spaces

_SUPPORTED_PYTHON_VERSIONS == {"3.8", "3.9", "3.10", "3.11"}

_DEFAULT_GCS_DIR_NAME == "reasoning_engine"

_BLOB_FILENAME == "reasoning_engine.pkl"

_REQUIREMENTS_FILE == "requirements.txt"

_EXTRA_PACKAGES_FILE == "dependencies.tar.gz"

\* f"{sys.version_info.major}.{sys.version_info.minor}" of the running interpreter.
RuntimeVersion == "3.11"

\* Create calls that may be in flight side by side.
EngCallers == {1, 2}

\* sys_version arguments: "" stands for None.
SysVersions == {"", "3.8", "2.7"}

\* initializer.global_config.staging_bucket: unset, without the gs:// scheme, well formed.
StagingBuckets ==
  {[scheme |-> "", name |-> ""], [scheme |-> "", name |-> "bkt"],
   [scheme |-> "gs://", name |-> "bkt"]}

\* The query attribute of the object: a method, missing, not callable, or a callable
\* whose signature inspect.signature cannot produce.
QueryKinds == {"ok", "missing", "not_callable", "bad_signature"}

\* Text is a sequence of characters, a character being its code point.
LF == 10

CR == 13

FF == 12

LetterA == 97

LetterB == 98

\* The characters at which str.splitlines() ends a line: "\n", "\x0b", "\x0c",
\* "\r", "\x1c", "\x1d", "\x1e", "\x85", "\u2028" and "\u2029" ("\r\n" is one end).
LineBreaks == {LF, 11, FF, CR, 28, 29, 30, 133, 8232, 8233}

\* The layouts of a text file: every line ended by "\n", every line ended by
\* "\r\n", or "\n" between the lines and none after the last. A line of a file
\* is a text without "\n" and "\r".
FileForms == {"lf", "crlf", "lf_open"}

Eol(form) == IF form = "crlf" THEN <<CR, LF>> ELSE <<LF>>

\* The characters of the file that holds `lines` in layout `form`.
RECURSIVE file_text(_, _)
file_text(lines, form) ==
  IF lines = <<>> THEN <<>>
  ELSE IF Len(lines) = 1 /\ form = "lf_open" THEN lines[1]
  ELSE lines[1] \o Eol(form) \o file_text(Tail(lines), form)

\* A layout can hold the lines when reading it back can tell them apart: the
\* last line of a file without a final line break is not empty.
Holds(lines, form) == form = "lf_open" => (lines # <<>> /\ lines[Len(lines)] # <<>>)

\* All sequences over S of length at most n.
SeqsUpTo(S, n) == UNION {[1..k -> S] : k \in 0..n}

ListArg(lines) == [kind |-> "list", lines |-> lines, content |-> <<>>, readable |-> TRUE]

\* The path of a readable file: `lines` are the lines the file holds, `content`
\* its characters.
PathArg(lines, form) ==
  [kind |-> "path", lines |-> lines, content |-> file_text(lines, form),
   readable |-> TRUE]

\* requirements arguments: None, a list of lines, or the path of a file (readable,
\* with its content, or unreadable).
RequirementsArgs ==
  {[kind |-> "none", lines |-> <<>>, content |-> <<>>, readable |-> TRUE],
   ListArg(<<>>), ListArg(<< <<>> >>), ListArg(<< <<LetterA>>, <<LetterB>> >>),
   PathArg(<<>>, "lf"), PathArg(<< <<LetterA>> >>, "lf"),
   [kind |-> "path", lines |-> <<>>, content |-> <<>>, readable |-> FALSE]}

Pkg(path, exists) == [path |-> path, exists |-> exists]

\* extra_packages arguments (None and [] behave alike), with what os.path.exists
\* says of each path.
ExtraPackagesArgs ==
  {<<>>, <<Pkg("p1", TRUE)>>, <<Pkg("p1", FALSE)>>,
   <<Pkg("p1", TRUE), Pkg("p2", FALSE)>>, <<Pkg("p1", TRUE), Pkg("p2", TRUE)>>}

\* sdk_resource.location: the location the SDK was initialized with.
DefaultLocation == "us-central1"

Locations == {DefaultLocation, "europe-west4"}

DefaultInput ==
  [sys_version |-> "", staging_bucket |-> [scheme |-> "gs://", name |-> "bkt"],
   location |-> DefaultLocation,
   query |-> "ok", cloneable |-> FALSE,
   requirements |-> [kind |-> "none", lines |-> <<>>, content |-> <<>>,
                     readable |-> TRUE],
   extra_packages |-> <<>>, gcs_dir_name |-> _DEFAULT_GCS_DIR_NAME]

AllInputs ==
  [sys_version : SysVersions, staging_bucket : StagingBuckets,
   location : {DefaultLocation}, query : QueryKinds,
   cloneable : BOOLEAN, requirements : RequirementsArgs,
   extra_packages : ExtraPackagesArgs, gcs_dir_name : {_DEFAULT_GCS_DIR_NAME}]

NoObj == <<>>

NoUri == <<>>

NoSpec ==
  [python_version |-> "", pickle_object_gcs_uri |-> NoUri,
   dependency_files_gcs_uri |-> NoUri, requirements_gcs_uri |-> NoUri,
   class_methods |-> <<>>]

\* The object as the caller passed it: what it is, and how many clone() calls
\* lie between it and the caller's object.
Original == <<"app", 0>>

\* A ReasoningEngine resource as a response carries it: its name, and the response
\* it came in.
NoEngine == [name |-> 0, from |-> "none"]

\* The resource in the result of the create operation.
Created(name) == [name |-> name, from |-> "operation"]

\* The resource in the answer to get_reasoning_engine(name).
Fetched(name) == [name |-> name, from |-> "get"]

\* The name the service gives the next resource.
NewName(names) == Cardinality(names) + 1

NoHandle == [name |-> 0, gca_resource |-> NoEngine]

\* Errors a create operation can end with.
OperationErrors == {"PermissionDenied", "Internal"}

\* A long-running operation: its state, and the result or the error once done.
NoOperation == [state |-> "none", result |-> NoEngine, error |-> ""]

Pending == [state |-> "pending", result |-> NoEngine, error |-> ""]

DoneOk(resource) == [state |-> "done_ok", result |-> resource, error |-> ""]

DoneError(e) == [state |-> "done_error", result |-> NoEngine, error |-> e]

\* What a poll gets for an operation the service no longer keeps.
Expired == [state |-> "done_error", result |-> NoEngine, error |-> "NotFound"]

DoneStates == {"done_ok", "done_error"}

Absent == [kind |-> "absent", data |-> <<>>]

BlobNames ==
  {<<_DEFAULT_GCS_DIR_NAME, f>> :
     f \in {_BLOB_FILENAME, _REQUIREMENTS_FILE, _EXTRA_PACKAGES_FILE}}

NothingSent == [b \in BlobNames |-> Absent]

\* No staging bucket in object storage.
NoBucket == [exists |-> FALSE, name |-> "", location |-> ""]

Ext(call, resp) == [call |-> call, resp |-> resp]

\* ------------------------------------------------ reasoning engine: local steps

\* The version create deploys for: sys_version, or the interpreter's when not given.
python_version(i) == IF i.sys_version = "" THEN RuntimeVersion ELSE i.sys_version

\* An extra_packages loop that stops after its first entry.
first_package_exists(eps) == eps = <<>> \/ eps[1].exists

\* The extra_packages loop: every path must exist.
extra_packages_exist(eps) == \A k \in DOMAIN eps : eps[k].exists

\* Local checks that leave the query attribute unchecked.
validate_without_query(i) ==
  IF python_version(i) \notin _SUPPORTED_PYTHON_VERSIONS THEN "ValueError:python_version"
  ELSE IF i.staging_bucket.name = "" /\ i.staging_bucket.scheme = ""
       THEN "ValueError:staging_bucket"
  ELSE IF i.staging_bucket.scheme # "gs://" THEN "ValueError:staging_bucket_scheme"
  ELSE IF i.requirements.kind = "path" /\ ~i.requirements.readable
       THEN "IOError:requirements"
  ELSE IF ~extra_packages_exist(i.extra_packages) THEN "FileNotFoundError:extra_package"
  ELSE "ok"

\* The local checks of create, in the order the code makes them: the exception
\* raised, or "ok".
validate(i) ==
  IF python_version(i) \notin _SUPPORTED_PYTHON_VERSIONS THEN "ValueError:python_version"
  ELSE IF i.staging_bucket.name = "" /\ i.staging_bucket.scheme = ""
       THEN "ValueError:staging_bucket"
  ELSE IF i.staging_bucket.scheme # "gs://" THEN "ValueError:staging_bucket_scheme"
  ELSE IF i.query \in {"missing", "not_callable"} THEN "TypeError:query"
  ELSE IF i.query = "bad_signature" THEN "ValueError:signature"
  ELSE IF i.requirements.kind = "path" /\ ~i.requirements.readable
       THEN "IOError:requirements"
  ELSE IF ~extra_packages_exist(i.extra_packages) THEN "FileNotFoundError:extra_package"
  ELSE "ok"

\* The position of the check that fails, 8 when none does; the arguments read
\* after it play no part in the call.
FailStage(i) ==
  IF python_version(i) \notin _SUPPORTED_PYTHON_VERSIONS THEN 1
  ELSE IF i.staging_bucket.scheme # "gs://" THEN 2
  ELSE IF i.query # "ok" THEN 3
  ELSE IF i.requirements.kind = "path" /\ ~i.requirements.readable THEN 6
  ELSE IF ~extra_packages_exist(i.extra_packages) THEN 7
  ELSE 8

\* One input for each way a call can go: arguments never read are at their defaults.
Inputs ==
  {i \in AllInputs :
     /\ (FailStage(i) < 2 => i.staging_bucket = DefaultInput.staging_bucket)
     /\ (FailStage(i) < 3 => i.query = DefaultInput.query)
     /\ (FailStage(i) < 3 => i.cloneable = DefaultInput.cloneable)
     /\ (FailStage(i) < 6 => i.requirements = DefaultInput.requirements)
     /\ (FailStage(i) < 7 => i.extra_packages = DefaultInput.extra_packages)}

\* Whether the call gets past the checks of the query attribute, to the clone.
reaches_clone(i) ==
  validate(i) \in {"ok", "IOError:requirements", "FileNotFoundError:extra_package"}

\* A create that goes on with the object it was given.
never_clones(i) == Original

\* reasoning_engine.clone()
clone(o) == <<o[1], o[2] + 1>>

\* The object create goes on with: reasoning_engine.clone() for a Cloneable.
clone_if_cloneable(i) == IF i.cloneable THEN clone(Original) ELSE Original

\* open(requirements) reads in text mode: "\r\n" and "\r" come out as "\n".
RECURSIVE universal_newlines(_)
universal_newlines(raw) ==
  IF raw = <<>> THEN <<>>
  ELSE IF raw[1] = CR
       THEN <<LF>> \o universal_newlines(IF Len(raw) >= 2 /\ raw[2] = LF
                                            THEN Tail(Tail(raw)) ELSE Tail(raw))
  ELSE <<raw[1]>> \o universal_newlines(Tail(raw))

\* The text after the line break it starts with ("\r\n" is one break).
AfterBreak(text) ==
  IF text[1] = CR /\ Len(text) >= 2 /\ text[2] = LF THEN Tail(Tail(text))
  ELSE Tail(text)

\* The lines of a text without their line breaks, cur being the line begun: a
\* text that ends with a line break has no empty line after it.
RECURSIVE split_from(_, _)
split_from(text, cur) ==
  IF text = <<>> THEN (IF cur = <<>> THEN <<>> ELSE <<cur>>)
  ELSE IF text[1] \in LineBreaks
       THEN <<cur>> \o split_from(AfterBreak(text), <<>>)
  ELSE split_from(Tail(text), Append(cur, text[1]))

\* str.splitlines()
splitlines(text) == split_from(text, <<>>)

\* requirements after normalization: f.read().splitlines() for a path, the list
\* itself, [] for None or an empty list.
normalize_requirements(r) ==
  IF r.kind = "path" THEN splitlines(universal_newlines(r.content)) ELSE r.lines

\* staging_bucket.replace("gs://", ""): the bucket name _prepare looks up.
bucket_name(staging_bucket) == staging_bucket.name

\* A create_bucket call without the location argument: the service picks its
\* default location.
service_default_location(i) == "US"

\* The location argument of create_bucket: the location _prepare was given.
bucket_location(i) == i.location

\* "{}/{}/{}".format(staging_bucket, gcs_dir_name, filename)
gcs_uri(i, filename) ==
  <<i.staging_bucket.scheme, i.staging_bucket.name, i.gcs_dir_name, filename>>

\* A package spec whose requirements_gcs_uri is set whatever the requirements.
package_spec_always(i, requirements) ==
  [python_version |-> python_version(i),
   pickle_object_gcs_uri |-> gcs_uri(i, _BLOB_FILENAME),
   dependency_files_gcs_uri |-> gcs_uri(i, _EXTRA_PACKAGES_FILE),
   requirements_gcs_uri |-> gcs_uri(i, _REQUIREMENTS_FILE),
   class_methods |-> <<>>]

\* A package spec that names the archive only when there are extra packages.
package_spec_archive_if_any(i, requirements) ==
  [python_version |-> python_version(i),
   pickle_object_gcs_uri |-> gcs_uri(i, _BLOB_FILENAME),
   dependency_files_gcs_uri |->
     IF i.extra_packages # <<>> THEN gcs_uri(i, _EXTRA_PACKAGES_FILE) ELSE NoUri,
   requirements_gcs_uri |->
     IF requirements # <<>> THEN gcs_uri(i, _REQUIREMENTS_FILE) ELSE NoUri,
   class_methods |-> <<>>]

\* The package spec, with requirements_gcs_uri set only for non-empty requirements.
package_spec(i, requirements) ==
  [python_version |-> python_version(i),
   pickle_object_gcs_uri |-> gcs_uri(i, _BLOB_FILENAME),
   dependency_files_gcs_uri |-> gcs_uri(i, _EXTRA_PACKAGES_FILE),
   requirements_gcs_uri |->
     IF requirements # <<>> THEN gcs_uri(i, _REQUIREMENTS_FILE) ELSE NoUri,
   class_methods |-> <<>>]

\* "\n".join(requirements)
RECURSIVE join_lines(_)
join_lines(lines) ==
  IF lines = <<>> THEN <<>>
  ELSE IF Len(lines) = 1 THEN lines[1]
  ELSE lines[1] \o <<LF>> \o join_lines(Tail(lines))

\* Whether _prepare uploads requirements.txt.
uploads_requirements(requirements) == requirements # <<>>

\* tarfile.add of each extra package: it raises for a path that does not exist.
tar_add_ok(eps) == \A k \in DOMAIN eps : eps[k].exists

\* A schema failure that ends the call.
schema_or_fail(gen) == IF gen = "raise" THEN "failed" ELSE "create_reasoning_engine"

\* After the try around the schema: `except Exception` logs a warning and the
\* flow goes on to the RPC.
after_schema(gen) == "create_reasoning_engine"

\* class_methods of the spec: the schema of o.query when generate_schema and
\* to_proto return, nothing when one of them raises.
generate_schema(o, gen) == IF gen = "ok" THEN <<[method |-> "query", of |-> o]>> ELSE <<>>

\* A poll that takes what the service says even of an operation seen done.
poll_always(op, remote) == remote

\* A poll of the operation future: a future that is done keeps what it has.
poll(op, remote) == IF op.state = "pending" THEN remote ELSE op

\* An operation error answered by issuing the create RPC again.
retry_on_error(op) ==
  IF op.state = "done_ok" THEN [next |-> "get", err |-> ""]
  ELSE [next |-> "create_rpc", err |-> ""]

\* operation_future.result() on a done operation: the flow goes on with the
\* result, or the operation's error is raised as it is.
operation_result(op) ==
  IF op.state = "done_ok" THEN [next |-> "get", err |-> ""]
  ELSE [next |-> "failed", err |-> op.error]

\* A handle that keeps the resource the operation returned.
snapshot_of_operation(created, fetched) == created

\* sdk_resource._gca_resource: the resource fetched by name after the operation.
_get_gca_resource(created, fetched) == fetched

\* A failed call that is caught and logged, the flow going on.
proceed_anyway(next, resp) == next

\* A storage or transport call that fails raises, and nothing catches it.
after_call(next, resp) == IF resp = "ok" THEN next ELSE "failed"

\* ------------------------------------------------ reasoning engine: the call

EngInit ==
  /\ epc = [c \in EngCallers |-> "idle"]
  /\ inp = [c \in EngCallers |-> DefaultInput]
  /\ obj = [c \in EngCallers |-> NoObj]
  /\ reqs = [c \in EngCallers |-> <<>>]
  /\ elog = [c \in EngCallers |-> <<>>]
  /\ err = [c \in EngCallers |-> ""]
  /\ respec = [c \in EngCallers |-> NoSpec]
  /\ warned = [c \in EngCallers |-> FALSE]
  /\ lro = [c \in EngCallers |-> NoOperation]
  /\ svc = [c \in EngCallers |-> NoOperation]
  /\ handle = [c \in EngCallers |-> NoHandle]
  /\ sent = [c \in EngCallers |-> NothingSent]
  /\ bucket = NoBucket
  /\ blobs = [b \in BlobNames |-> Absent]
  /\ engines = {}
  /\ ncalls = 0

\* The call moves to `next`, or ends with exception e when next is "failed".
Goto(c, next, e) ==
  /\ epc' = [epc EXCEPT ![c] = next]
  /\ err' = [err EXCEPT ![c] = IF next = "failed" THEN e ELSE ""]

Logged(c, call, resp) == elog' = [elog EXCEPT ![c] = Append(@, Ext(call, resp))]

\* ReasoningEngine.create, from its first line to the call of _prepare: the local
\* checks, the clone, the reading of the requirements file, the extra_packages loop.
CreateStart(c, i) ==
  /\ epc[c] \in {"idle", "done", "failed"}
  /\ ncalls < MaxCalls
  /\ ncalls' = ncalls + 1
  /\ inp' = [inp EXCEPT ![c] = i]
  /\ elog' = [elog EXCEPT ![c] = <<>>]
  /\ respec' = [respec EXCEPT ![c] = NoSpec]
  /\ warned' = [warned EXCEPT ![c] = FALSE]
  /\ lro' = [lro EXCEPT ![c] = NoOperation]
  /\ svc' = [svc EXCEPT ![c] = NoOperation]
  /\ handle' = [handle EXCEPT ![c] = NoHandle]
  /\ sent' = [sent EXCEPT ![c] = NothingSent]
  /\ obj' = [obj EXCEPT ![c] = IF reaches_clone(i) THEN clone_if_cloneable(i)
                                ELSE Original]
  /\ IF validate(i) = "ok"
     THEN /\ reqs' = [reqs EXCEPT ![c] = normalize_requirements(i.requirements)]
          /\ Goto(c, "get_bucket", "")
     ELSE /\ reqs' = [reqs EXCEPT ![c] = <<>>]
          /\ Goto(c, "failed", validate(i))
  /\ UNCHANGED <<bucket, blobs, engines, metaVars, rn>>

\* _prepare: storage_client.get_bucket(staging_bucket); NotFound leads to create_bucket.
GetBucket(c) ==
  /\ epc[c] = "get_bucket"
  /\ \E resp \in (IF bucket.exists /\ bucket.name = bucket_name(inp[c].staging_bucket)
                  THEN {"ok"} ELSE {"NotFound"}) \cup {"error"} :
       /\ Logged(c, "get_bucket", resp)
       /\ IF resp = "NotFound" THEN Goto(c, "create_bucket", "")
          ELSE Goto(c, after_call("write_pickle", resp), "StorageError")
  /\ UNCHANGED <<inp, obj, reqs, respec, warned, lro, svc, handle, sent, bucket, blobs,
                 engines, ncalls, metaVars, rn>>

\* _prepare: storage_client.create_bucket(new_bucket, location=location).
CreateBucket(c) ==
  /\ epc[c] = "create_bucket"
  /\ \E resp \in (IF bucket.exists THEN {"Conflict"} ELSE {"ok"}) \cup {"error"} :
       /\ Logged(c, "create_bucket", resp)
       /\ bucket' = IF resp = "ok"
                    THEN [exists |-> TRUE, name |-> bucket_name(inp[c].staging_bucket),
                          location |-> bucket_location(inp[c])]
                    ELSE bucket
       /\ Goto(c, after_call("write_pickle", resp), "StorageError")
  /\ UNCHANGED <<inp, obj, reqs, respec, warned, lro, svc, handle, sent, blobs,
                 engines, ncalls, metaVars, rn>>

\* A blob write by call c: the content is stored when the call succeeds.
Written(c, name, content, resp) ==
  /\ blobs' = IF resp = "ok" THEN [blobs EXCEPT ![name] = content] ELSE blobs
  /\ sent' = IF resp = "ok" THEN [sent EXCEPT ![c][name] = content] ELSE sent

\* _prepare: cloudpickle.dump of the object into {gcs_dir_name}/reasoning_engine.pkl.
WritePickle(c) ==
  /\ epc[c] = "write_pickle"
  /\ \E resp \in {"ok", "error"} :
       /\ Logged(c, "write_pickle", resp)
       /\ Written(c, <<inp[c].gcs_dir_name, _BLOB_FILENAME>>,
                  [kind |-> "pickle", data |-> obj[c]], resp)
       /\ Goto(c, after_call("upload_requirements", resp), "StorageError")
  /\ UNCHANGED <<inp, obj, reqs, respec, warned, lro, svc, handle, bucket, engines,
                 ncalls, metaVars, rn>>

\* _prepare: requirements.txt is uploaded only for non-empty requirements.
UploadRequirements(c) ==
  /\ epc[c] = "upload_requirements"
  /\ IF uploads_requirements(reqs[c])
     THEN \E resp \in {"ok", "error"} :
            /\ Logged(c, "upload_requirements", resp)
            /\ Written(c, <<inp[c].gcs_dir_name, _REQUIREMENTS_FILE>>,
                       [kind |-> "text", data |-> join_lines(reqs[c])], resp)
            /\ Goto(c, after_call("upload_archive", resp), "StorageError")
     ELSE /\ Goto(c, "upload_archive", "")
          /\ UNCHANGED <<elog, blobs, sent>>
  /\ UNCHANGED <<inp, obj, reqs, respec, warned, lro, svc, handle, bucket, engines,
                 ncalls, metaVars, rn>>

\* _prepare: the in-memory tar of extra_packages (tar.add raises for a path that
\* does not exist), then its upload to dependencies.tar.gz.
UploadArchive(c) ==
  /\ epc[c] = "upload_archive"
  /\ IF ~tar_add_ok(inp[c].extra_packages)
     THEN /\ Goto(c, "failed", "FileNotFoundError:tar.add")
          /\ UNCHANGED <<elog, blobs, sent>>
     ELSE \E resp \in {"ok", "error"} :
            /\ Logged(c, "upload_archive", resp)
            /\ Written(c, <<inp[c].gcs_dir_name, _EXTRA_PACKAGES_FILE>>,
                       [kind |-> "tar",
                        data |-> [k \in DOMAIN inp[c].extra_packages |->
                                    inp[c].extra_packages[k].path]], resp)
            /\ Goto(c, after_call("create_rpc", resp), "StorageError")
  /\ UNCHANGED <<inp, obj, reqs, respec, warned, lro, svc, handle, bucket, engines,
                 ncalls, metaVars, rn>>

\* create, after _prepare: the package spec, the best-effort schema of the query
\* method (a failure to generate it is logged and the spec goes without), the
\* create_reasoning_engine RPC, which answers with a pending operation.
CreateRpc(c) ==
  /\ epc[c] = "create_rpc"
  /\ \E gen \in {"ok", "raise"}, resp \in {"ok", "error"} :
       /\ respec' = [respec EXCEPT ![c] =
                       [package_spec(inp[c], reqs[c])
                          EXCEPT !.class_methods = generate_schema(obj[c], gen)]]
       /\ warned' = [warned EXCEPT ![c] = (gen = "raise")]
       /\ IF after_schema(gen) = "failed"
          THEN /\ Goto(c, "failed", "SchemaError")
               /\ UNCHANGED <<elog, lro, svc>>
          ELSE /\ Logged(c, "create_reasoning_engine", resp)
               /\ lro' = [lro EXCEPT ![c] = IF resp = "ok" THEN Pending ELSE NoOperation]
               /\ svc' = [svc EXCEPT ![c] = IF resp = "ok" THEN Pending ELSE NoOperation]
               /\ Goto(c, after_call("result", resp), "TransportError")
  /\ UNCHANGED <<inp, obj, reqs, handle, sent, bucket, blobs, engines, ncalls, metaVars, rn>>

\* The service ends the long-running operation: the resource exists under a new
\* name, or the operation carries an error.
OperationEnds(c) ==
  /\ svc[c].state = "pending"
  /\ \/ /\ svc' = [svc EXCEPT ![c] = DoneOk(Created(NewName(engines)))]
        /\ engines' = engines \cup {NewName(engines)}
     \/ /\ \E e \in OperationErrors : svc' = [svc EXCEPT ![c] = DoneError(e)]
        /\ engines' = engines
  /\ UNCHANGED <<epc, inp, obj, reqs, elog, err, respec, warned, lro, handle, sent,
                 bucket, blobs, ncalls, metaVars, rn>>

\* The service drops the record of an operation whose end the caller has seen.
OperationExpires(c) ==
  /\ epc[c] \in {"result", "get"}
  /\ lro[c].state \in DoneStates
  /\ svc[c].state \in DoneStates
  /\ svc' = [svc EXCEPT ![c] = Expired]
  /\ UNCHANGED <<epc, inp, obj, reqs, elog, err, respec, warned, lro, handle, sent,
                 bucket, blobs, engines, ncalls, metaVars, rn>>

\* operation_future.result() polls: the handle takes what the service says of the
\* operation.
Poll(c) ==
  /\ epc[c] \in {"result", "get"}
  /\ lro' = [lro EXCEPT ![c] = poll(lro[c], svc[c])]
  /\ UNCHANGED <<epc, inp, obj, reqs, elog, err, respec, warned, svc, handle, sent,
                 bucket, blobs, engines, ncalls, metaVars, rn>>

\* operation_future.result(): returns the created resource or raises the
\* operation's error, once the operation is done.
OperationResult(c) ==
  /\ epc[c] = "result"
  /\ lro[c].state \in DoneStates
  /\ Logged(c, "operation.result", IF lro[c].state = "done_ok" THEN "ok" ELSE "error")
  /\ Goto(c, operation_result(lro[c]).next, operation_result(lro[c]).err)
  /\ UNCHANGED <<inp, obj, reqs, respec, warned, lro, svc, handle, sent, bucket, blobs,
                 engines, ncalls, metaVars, rn>>

\* sdk_resource._get_gca_resource(resource_name=created_resource.name), then the
\* handle is returned.
GetResource(c) ==
  /\ epc[c] = "get"
  /\ \E resp \in {"ok", "error"} :
       /\ Logged(c, "get_reasoning_engine", resp)
       /\ handle' = [handle EXCEPT ![c] =
                       IF resp = "ok"
                       THEN [name |-> lro[c].result.name,
                             gca_resource |->
                               _get_gca_resource(lro[c].result,
                                                 Fetched(lro[c].result.name))]
                       ELSE NoHandle]
       /\ Goto(c, after_call("done", resp), "TransportError")
  /\ UNCHANGED <<inp, obj, reqs, respec, warned, lro, svc, sent, bucket, blobs,
                 engines, ncalls, metaVars, rn>>

\* The steps of the create call of caller c, once started.
CreateSteps(c) ==
  \/ GetBucket(c)
  \/ CreateBucket(c)
  \/ WritePickle(c)
  \/ UploadRequirements(c)
  \/ UploadArchive(c)
  \/ CreateRpc(c)
  \/ OperationEnds(c)
  \/ OperationExpires(c)
  \/ Poll(c)
  \/ OperationResult(c)
  \/ GetResource(c)

\* Create calls made one after the other by one caller.
EngNext ==
  \E c \in {1} :
    \/ \E i \in Inputs : CreateStart(c, i)
    \/ CreateSteps(c)

\* ------------------------------------------------ resource names

\* A resource name, and a component of one, is the sequence of the segments that
\* "/" separates in it.
Segments == {"a", "locations"}

Components == SeqsUpTo(Segments, MaxSegments) \ {<<>>}

\* _resource_noun of the two resource types.
ResourceNouns == {"artifacts", "reasoning_engine"}

\* The components of a name: a metadata artifact has a metadata store.
NameTuples ==
  [noun : ResourceNouns \ {"reasoning_engine"}, project : Components,
   location : Components, store : Components, id : Components]
  \cup [noun : ResourceNouns \ {"artifacts"}, project : Components,
        location : Components, store : {<<>>}, id : Components]

NoMatch == [ok |-> FALSE, groups |-> <<>>]

\* A component the pattern's group can match: at least one character.
NonEmpty(group) == group # <<>> /\ group # <<"">>

\* The match of a name against "{lits[1]}/(.+?)/{lits[2]}/(.+?)/...$": each group
\* as short as a full match allows, the last one up to the end.
RECURSIVE Match(_, _)
Match(lits, segs) ==
  IF segs = <<>> \/ segs[1] # lits[1] THEN NoMatch
  ELSE IF Len(lits) = 1
       THEN IF NonEmpty(Tail(segs)) THEN [ok |-> TRUE, groups |-> <<Tail(segs)>>]
            ELSE NoMatch
  ELSE LET rest == Tail(segs)
           After(k) == Match(Tail(lits), SubSeq(rest, k + 1, Len(rest)))
           cuts == {k \in 1..Len(rest) : NonEmpty(SubSeq(rest, 1, k)) /\ After(k).ok}
       IN IF cuts = {} THEN NoMatch
          ELSE LET k == CHOOSE j \in cuts : \A m \in cuts : j <= m
               IN [ok |-> TRUE, groups |-> <<SubSeq(rest, 1, k)>> \o After(k).groups]

\* artifact_path(project, location, metadata_store, artifact)
artifact_path(project, location, metadata_store, artifact) ==
  <<"projects">> \o project \o <<"locations">> \o location
    \o <<"metadataStores">> \o metadata_store \o <<"artifacts">> \o artifact

\* A parse of artifact names with the pattern of a resource without a store.
parse_without_store(path) == Match(<<"projects", "locations", "artifacts">>, path)

\* parse_artifact_path(path)
parse_artifact_path(path) ==
  Match(<<"projects", "locations", "metadataStores", "artifacts">>, path)

\* reasoning_engine_path(project, location, reasoning_engine)
reasoning_engine_path(project, location, reasoning_engine) ==
  <<"projects">> \o project \o <<"locations">> \o location
    \o <<"reasoningEngines">> \o reasoning_engine

\* parse_reasoning_engine_path(path)
parse_reasoning_engine_path(path) ==
  Match(<<"projects", "locations", "reasoningEngines">>, path)

\* _format_resource_name_method of the resource type, applied to the components.
format_resource_name(t) ==
  IF t.noun = "artifacts" THEN artifact_path(t.project, t.location, t.store, t.id)
  ELSE reasoning_engine_path(t.project, t.location, t.id)

\* _parse_resource_name_method of the resource type, applied to a name.
parse_resource_name(noun, name) ==
  IF noun = "artifacts" THEN parse_artifact_path(name)
  ELSE parse_reasoning_engine_path(name)

\* The groups of a match as components.
Fields(t) ==
  IF t.noun = "artifacts" THEN <<t.project, t.location, t.store, t.id>>
  ELSE <<t.project, t.location, t.id>>

NoTuple ==
  [noun |-> "artifacts", project |-> <<"a">>, location |-> <<"a">>, store |-> <<"a">>,
   id |-> <<"a">>]

\* No name in hand.
NameIdle == rn = [step |-> "idle", tuple |-> NoTuple, name |-> <<>>, parsed |-> NoMatch]

\* Any components, not yet formatted.
NameInit ==
  rn \in {[step |-> "tuple", tuple |-> t, name |-> <<>>, parsed |-> NoMatch] :
            t \in NameTuples}

\* The components are formatted into a name.
FormatName ==
  /\ rn.step = "tuple"
  /\ rn' = [rn EXCEPT !.step = "name", !.name = format_resource_name(rn.tuple)]
  /\ UNCHANGED <<metaVars, engVars>>

\* The name is parsed back into components.
ParseName ==
  /\ rn.step = "name"
  /\ rn' = [rn EXCEPT !.step = "parsed",
                      !.parsed = parse_resource_name(rn.tuple.noun, rn.name)]
  /\ UNCHANGED <<metaVars, engVars>>

NameNext == FormatName \/ ParseName

\* A create call with the given requirements argument, all else at its default.
WithRequirements(r) == [DefaultInput EXCEPT !.requirements = r]

\* The lines requirements are made of here: an empty line, a one-character one,
\* and one with a form feed in it.
ReqLines == {<<>>, <<LetterA>>, <<LetterA, FF, LetterB>>}

\* Calls given the lines as a list.
ListInputs == {WithRequirements(ListArg(ls)) : ls \in SeqsUpTo(ReqLines, MaxLines)}

\* Calls given the path of a file that holds the lines, in each layout that can.
FileInputs ==
  {WithRequirements(PathArg(ls, form)) :
     <<ls, form>> \in {x \in SeqsUpTo(ReqLines, MaxLines) \X FileForms :
                        Holds(x[1], x[2])}}

\* One create call given a list, then one create call given a file.
ReqNext ==
  \/ epc[1] = "idle" /\ \E i \in ListInputs : CreateStart(1, i)
  \/ CreateSteps(1)
  \/ /\ epc[1] \in {"done", "failed"}
     /\ epc[2] = "idle"
     /\ \E i \in FileInputs : CreateStart(2, i)
  \/ CreateSteps(2)

\* Calls that differ in the object and in the requirements they deploy, with the
\* same staging bucket and the same gcs_dir_name.
RaceInputs ==
  {[DefaultInput EXCEPT !.cloneable = b, !.requirements = r] :
     b \in BOOLEAN, r \in {ListArg(<<>>), ListArg(<< <<LetterA>> >>)}}

\* Create calls of two callers, their steps interleaved.
RaceNext ==
  \E c \in EngCallers :
    \/ \E i \in RaceInputs : CreateStart(c, i)
    \/ CreateSteps(c)

\* Calls that differ in the location the SDK was initialized with.
BucketInputs == {[DefaultInput EXCEPT !.location = l] : l \in Locations}

\* Create calls of two callers that resolve the same staging bucket, their steps
\* interleaved.
BucketNext ==
  \E c \in EngCallers :
    \/ \E i \in BucketInputs : CreateStart(c, i)
    \/ CreateSteps(c)

\* ------------------------------------------------ specifications

Init == MetaInit /\ EngInit /\ NameIdle

\* As Init, with the components of a resource name in hand.
NameStart == MetaInit /\ EngInit /\ NameInit

\* Concurrent callers of the metadata artifact API.
MetaSpec == Init /\ [][MetaNext]_vars

\* ReasoningEngine.create calls against object storage and the service.
EngSpec == Init /\ [][EngNext]_vars

\* ReasoningEngine.create calls of two callers side by side.
RaceSpec == Init /\ [][RaceNext]_vars

\* Resource names formatted from components and parsed back.
NameSpec == NameStart /\ [][NameNext]_vars

\* ReasoningEngine.create calls with different locations on one staging bucket.
BucketSpec == Init /\ [][BucketNext]_vars

\* The two forms of the requirements argument, one call each.
ReqSpec == Init /\ [][ReqNext]_vars

\* ------------------------------------------------ claims: metadata artifacts

IsGet == last.op = "get_with_uri"

IsRoc == last.op = "resolve_or_create_resource_artifact"

\* A resolve_or_create call that went on to create after resolve returned None.
RocCreated == IsRoc /\ Len(last.calls) = 4

Writes(calls) ==
  {i \in DOMAIN calls : calls[i].rpc \in {"create_artifact", "update_artifact"}}

\* C1 (as claimed): with more than one match, get_with_uri returns the match with
\* the greatest creation time, whatever the order the service listed them in.
C1_ReturnsMostRecent ==
  (IsGet /\ Len(last.listed) > 1) =>
    /\ last.ret.kind = "artifact"
    /\ \A i \in DOMAIN last.listed :
         last.listed[i].create_time <= last.ret.art.create_time

\* C2: a resolve_or_create call for a resource that starts after an earlier
\* resolve_or_create call for it has completed, with no write to the store in
\* between, returns the same artifact and leaves the store as large as it was.
C2_SequentialIdempotent ==
  (IsRoc /\ last.prev.valid) =>
    /\ last.ret.kind = "artifact"
    /\ last.ret.art.id = last.prev.id
    /\ last.n = last.prev.n
    /\ Writes(last.calls) = {}

\* C2 witness: a second sequential call, made while the store holds two artifacts
\* of the resource, so that the choice among them matters.
C2_Witness == IsRoc /\ last.prev.valid /\ Len(last.listed) = 2

\* C3: a resolve_or_create call that saw no match and went on to create gets no
\* error, and adds one artifact with the resource's (schema_title, uri) even when
\* another caller has created one since its resolve.
C3_RaceCreatesDuplicate ==
  RocCreated =>
    /\ last.ret.kind = "artifact"
    /\ last.calls[4] = Call("create_artifact", "ok")
    /\ last.after = last.before + 1

\* C3 witness: two callers both resolved None for the same resource, both created,
\* and the store holds two artifacts with the same (schema_title, uri).
C3_Witness ==
  /\ RocCreated
  /\ last.raced
  /\ last.ret.kind = "artifact"
  /\ last.before = 1
  /\ last.after = 2
  /\ CountDup(store, last.title, last.uri) = 2

\* C6 (as claimed): with no match, get_with_uri fails with NotFound, returns no
\* artifact and writes nothing.
C6_RaisesNotFound ==
  (IsGet /\ last.listed = <<>>) =>
    /\ last.ret = Raise("NotFound")
    /\ Writes(last.calls) = {}

\* C6 (amended): with no match, get_with_uri fails with ValueError, returns no
\* artifact and issues no create or update call.
C6_RaisesValueError ==
  (IsGet /\ last.listed = <<>>) =>
    /\ last.ret = Raise("ValueError")
    /\ last.ret.art = NoArt
    /\ Writes(last.calls) = {}
    /\ last.n = Len(store)

\* C6 witness: a get_with_uri for a uri no stored artifact has, in a non-empty store.
C6_Witness ==
  /\ IsGet
  /\ last.listed = <<>>
  /\ store # <<>>
  /\ \A i \in DOMAIN store : store[i].uri # last.uri

\* C7: when the service answers a create with AlreadyExists, the call raises
\* AlreadyExists: it returns neither a handle nor None.
C7_AlreadyExistsRaised ==
  (last.op = "create" /\ last.calls[1].resp = "AlreadyExists") =>
    /\ last.ret = Raise("AlreadyExists")
    /\ last.ret.kind \notin {"artifact", "none"}

\* C7 witness: an Artifact.create with a resource_id the store already holds.
C7_Witness ==
  /\ last.op = "create"
  /\ last.calls[1].resp = "AlreadyExists"
  /\ \E i \in DOMAIN store : store[i].id = last.rid

\* C8: create_vertex_resource_artifact waits, issues exactly one create and no
\* list, succeeds, and adds one artifact with the resource's (schema_title, uri),
\* also when such an artifact already exists.
C8_AlwaysCreates ==
  (last.op = "create_vertex_resource_artifact") =>
    /\ last.calls = <<Call("wait", "ok"), Call("create_artifact", "ok")>>
    /\ last.ret.kind = "artifact"
    /\ last.ret.art.schema_title = last.title
    /\ last.ret.art.uri = last.uri
    /\ last.after = last.before + 1

\* C8 witness: a create for a resource that already had an artifact.
C8_Witness ==
  /\ last.op = "create_vertex_resource_artifact"
  /\ last.before >= 1
  /\ CountDup(store, last.title, last.uri) = last.before + 1

UriMatches(uri) == {i \in DOMAIN store : store[i].uri = uri}

\* C9: a successful Artifact.create stores an artifact with the given uri under the
\* id it returns, and get_with_uri for a uri that exactly one stored artifact has
\* returns that artifact: its uri is the one asked for and its id the stored one.
C9_CreateThenGet ==
  /\ (last.op = "create" /\ last.ret.kind = "artifact") =>
       /\ last.ret.art = store[Len(store)]
       /\ last.ret.art.uri = last.uri
       /\ last.ret.art.schema_title = last.title
       /\ (last.rid # NoId => last.ret.art.id = last.rid)
       /\ \A i \in 1..(Len(store) - 1) : store[i].id # last.ret.art.id
  /\ (IsGet /\ Cardinality(UriMatches(last.uri)) = 1) =>
       /\ last.ret.kind = "artifact"
       /\ last.ret.art.uri = last.uri
       /\ \E i \in UriMatches(last.uri) : store[i] = last.ret.art

\* C9 witness: a get_with_uri that found exactly one artifact with the uri, in a
\* store that also holds an artifact with another uri.
C9_Witness ==
  /\ IsGet
  /\ Cardinality(UriMatches(last.uri)) = 1
  /\ Len(store) = 2
  /\ last.ret.kind = "artifact"

\* The stored artifacts with the schema title and the uri of the last call.
StoredMatches ==
  {store[i] : i \in {j \in DOMAIN store :
                       store[j].schema_title = last.title /\ store[j].uri = last.uri}}

\* C17: resolve_vertex_resource waits for the resource, then lists once; the
\* listing holds exactly the stored artifacts with the Vertex model schema title
\* and the resource's uri; it returns the listed artifact with the greatest
\* creation time, or None for an empty listing; it issues no create or update and
\* leaves the store as it was.
C17_ResolveReadsOnly ==
  (last.op = "resolve_vertex_resource") =>
    /\ last.calls = <<Call("wait", "ok"), Call("list_artifacts", "ok")>>
    /\ Writes(last.calls) = {}
    /\ last.n = Len(store)
    /\ last.title = VertexModelTitle
    /\ {last.listed[i] : i \in DOMAIN last.listed} = StoredMatches
    /\ Len(last.listed) = Cardinality(StoredMatches)
    /\ IF last.listed = <<>> THEN last.ret = ReturnNone
       ELSE /\ last.ret.kind = "artifact"
            /\ last.ret.art \in StoredMatches
            /\ \A a \in StoredMatches : a.create_time <= last.ret.art.create_time

\* C17 witness: a resolve whose listing came back newest first, so that the
\* artifact returned is not the last one listed.
C17_Witness ==
  /\ last.op = "resolve_vertex_resource"
  /\ Len(last.listed) = 2
  /\ last.listed[1].create_time > last.listed[2].create_time
  /\ last.ret = Return(last.listed[1])

\* Components a resource name is made of: each one segment, not empty.
ValidTuple(t) == \A k \in DOMAIN Fields(t) : Len(Fields(t)[k]) = 1 /\ Fields(t)[k] # <<"">>

\* C16: for valid components (project, location, id, and the metadata store for
\* a metadata artifact), the name formatted from them parses, and parses back
\* into the same components.
C16_FormatParseRoundTrip ==
  (rn.step = "parsed" /\ ValidTuple(rn.tuple)) =>
    /\ rn.parsed.ok
    /\ rn.parsed.groups = Fields(rn.tuple)

\* C16 witness: the name of an artifact in a project and a metadata store both
\* called "locations", parsed back.
C16_Witness ==
  /\ rn.step = "parsed"
  /\ rn.tuple.noun = "artifacts"
  /\ rn.tuple.project = <<"locations">>
  /\ rn.tuple.store = <<"locations">>
  /\ rn.tuple.location = <<"a">>
  /\ rn.tuple.id = <<"a">>
  /\ rn.parsed.groups = <<<<"locations">>, <<"a">>, <<"locations">>, <<"a">>>>

\* ------------------------------------------------ claims: ReasoningEngine.create

\* The exceptions of create's local checks.
LocalErrors ==
  {"ValueError:python_version", "ValueError:staging_bucket",
   "ValueError:staging_bucket_scheme", "TypeError:query", "ValueError:signature",
   "IOError:requirements", "FileNotFoundError:extra_package"}

\* An input a local check must reject: an unsupported version, no usable staging
\* bucket, a query that is not callable or has no signature, a requirements file
\* that cannot be read, an extra package (at any position) that does not exist.
LocallyInvalid(i) ==
  \/ (IF i.sys_version = "" THEN RuntimeVersion ELSE i.sys_version)
       \notin {"3.8", "3.9", "3.10", "3.11"}
  \/ i.staging_bucket.scheme # "gs://"
  \/ i.query # "ok"
  \/ (i.requirements.kind = "path" /\ ~i.requirements.readable)
  \/ \E k \in DOMAIN i.extra_packages : ~i.extra_packages[k].exists

Issued(c, call) == {k \in DOMAIN elog[c] : elog[c][k].call = call}

StorageCalls ==
  {"get_bucket", "create_bucket", "write_pickle", "upload_requirements",
   "upload_archive"}

\* C4: a create call whose input fails a local check ends with that check's
\* exception having made no storage and no transport call; and no local check's
\* exception is ever raised after such a call.
C4_ValidationBeforeCalls ==
  \A c \in EngCallers :
    /\ (epc[c] # "idle" /\ LocallyInvalid(inp[c])) =>
         (epc[c] = "failed" /\ err[c] \in LocalErrors /\ elog[c] = <<>>)
    /\ (epc[c] = "failed" /\ elog[c] # <<>>) =>
         (err[c] \notin LocalErrors /\ err[c] # "FileNotFoundError:tar.add")

\* C4 witness: a call rejected for its second extra package, the first one
\* existing, after an earlier call had already created the staging bucket.
C4_Witness ==
  /\ epc[1] = "failed"
  /\ err[1] = "FileNotFoundError:extra_package"
  /\ Len(inp[1].extra_packages) = 2
  /\ inp[1].extra_packages[1].exists
  /\ ~inp[1].extra_packages[2].exists
  /\ elog[1] = <<>>
  /\ bucket.exists

\* C5: when the create_reasoning_engine RPC is issued, the pickle blob, the
\* requirements blob (for non-empty requirements) and the archive blob have been
\* uploaded by this call, and no storage call of it has failed; a call with a
\* failed bucket resolution or upload never issues the RPC.
C5_UploadsBeforeRpc ==
  \A c \in EngCallers :
    /\ \A k \in Issued(c, "create_reasoning_engine") :
         /\ \E j \in 1..(k - 1) : elog[c][j] = Ext("write_pickle", "ok")
         /\ \E j \in 1..(k - 1) : elog[c][j] = Ext("upload_archive", "ok")
         /\ inp[c].requirements.lines # <<>> =>
              \E j \in 1..(k - 1) : elog[c][j] = Ext("upload_requirements", "ok")
         /\ \E j \in 1..(k - 1) :
              elog[c][j] \in {Ext("get_bucket", "ok"), Ext("create_bucket", "ok")}
    /\ (\E j \in DOMAIN elog[c] :
          /\ elog[c][j].call \in StorageCalls
          /\ elog[c][j].resp # "ok"
          /\ elog[c][j] # Ext("get_bucket", "NotFound"))
         => Issued(c, "create_reasoning_engine") = {}

\* C5 witness: the RPC issued by a call with requirements that had to create the
\* bucket first.
C5_Witness ==
  /\ Issued(1, "create_reasoning_engine") # {}
  /\ inp[1].requirements.lines # <<>>
  /\ elog[1][1] = Ext("get_bucket", "NotFound")
  /\ Len(elog[1]) = 6

\* The call has passed the point where _prepare decides on requirements.txt.
PastRequirements(c) ==
  \/ epc[c] \in {"upload_archive", "create_rpc", "result", "get", "done"}
  \/ Issued(c, "upload_archive") # {}
  \/ Issued(c, "create_reasoning_engine") # {}

\* C10: the spec's requirements_gcs_uri is set exactly when the requirements given
\* (a list, or the lines of the file) are non-empty, and requirements.txt is
\* uploaded by the call in exactly that case.
C10_RequirementsUriIffNonEmpty ==
  \A c \in EngCallers :
    /\ respec[c] # NoSpec =>
         /\ (respec[c].requirements_gcs_uri # NoUri) <=> (inp[c].requirements.lines # <<>>)
         /\ respec[c].requirements_gcs_uri \in
              {NoUri, <<"gs://", "bkt", inp[c].gcs_dir_name, "requirements.txt">>}
    /\ PastRequirements(c) =>
         ((Issued(c, "upload_requirements") # {}) <=> (inp[c].requirements.lines # <<>>))

\* C10 witness: a spec built for a call without requirements, its URI unset,
\* while requirements.txt of an earlier call is still in the bucket.
C10_Witness ==
  /\ respec[1] # NoSpec
  /\ inp[1].requirements.kind = "none"
  /\ respec[1].requirements_gcs_uri = NoUri
  /\ Issued(1, "upload_requirements") = {}
  /\ blobs[<<_DEFAULT_GCS_DIR_NAME, _REQUIREMENTS_FILE>>] # Absent

RequirementsBlob == <<_DEFAULT_GCS_DIR_NAME, _REQUIREMENTS_FILE>>

UploadedRequirements(c) ==
  \E k \in DOMAIN elog[c] : elog[c][k] = Ext("upload_requirements", "ok")

\* C11: a create call given the path of a file that holds some lines, and a create
\* call given the same lines as a list, both upload requirements.txt or neither
\* does, and when both uploads succeed the two blobs hold the same characters:
\* the lines in their order, with "\n" between them.
C11_FileAsList ==
  (/\ PastRequirements(1)
   /\ PastRequirements(2)
   /\ inp[1].requirements.kind = "list"
   /\ inp[2].requirements.kind = "path"
   /\ inp[1].requirements.lines = inp[2].requirements.lines) =>
    /\ (Issued(1, "upload_requirements") # {}) <=> (Issued(2, "upload_requirements") # {})
    /\ (UploadedRequirements(1) /\ UploadedRequirements(2)) =>
         /\ sent[1][RequirementsBlob] = sent[2][RequirementsBlob]
         /\ sent[2][RequirementsBlob] = blobs[RequirementsBlob]

\* The call ended with an exception, and its last storage or transport call failed.
FailedInCall(c) ==
  /\ epc[c] = "failed"
  /\ elog[c] # <<>>
  /\ elog[c][Len(elog[c])].resp # "ok"

\* C12: when the schema of the query method cannot be generated, the call goes on:
\* the create_reasoning_engine RPC is issued, with a spec that carries no schema,
\* and the call fails only if that RPC or a later transport call fails.
C12_SchemaFailureSwallowed ==
  \A c \in EngCallers :
    warned[c] =>
      /\ respec[c] # NoSpec
      /\ respec[c].class_methods = <<>>
      /\ Issued(c, "create_reasoning_engine") # {}
      /\ epc[c] \in {"result", "get", "done", "failed"}
      /\ epc[c] = "failed" => FailedInCall(c)

\* C12 witness: a call that returned a handle although its schema failed.
C12_Witness ==
  /\ warned[1]
  /\ epc[1] = "done"
  /\ handle[1] # NoHandle
  /\ respec[1].class_methods = <<>>
  /\ elog[1][Len(elog[1])] = Ext("get_reasoning_engine", "ok")

\* C13: operation_future.result() returns only on a done operation; on success
\* create then issues get_reasoning_engine for the name of the resource the
\* operation created; the handle holds the resource that get returned, not the
\* one in the operation's result, and exists only once that get has returned.
C13_GetAfterOperation ==
  \A c \in EngCallers :
    /\ Issued(c, "operation.result") # {} => lro[c].state \in DoneStates
    /\ epc[c] \in {"get", "done"} => lro[c].state = "done_ok"
    /\ \A k \in Issued(c, "get_reasoning_engine") :
         k > 1 /\ elog[c][k - 1] = Ext("operation.result", "ok")
    /\ handle[c] # NoHandle => epc[c] = "done"
    /\ epc[c] = "done" =>
         /\ elog[c][Len(elog[c])] = Ext("get_reasoning_engine", "ok")
         /\ handle[c].name = lro[c].result.name
         /\ handle[c].name \in engines
         /\ handle[c].gca_resource = Fetched(lro[c].result.name)
         /\ handle[c].gca_resource # lro[c].result

\* C13 witness: the handle of a second create call, for the second resource.
C13_Witness ==
  /\ epc[1] = "done"
  /\ ncalls = 2
  /\ lro[1].result = Created(2)
  /\ handle[1] = [name |-> 2, gca_resource |-> Fetched(2)]

\* C14: the operation future of a create call goes from pending to pending, done
\* with a result or done with an error, and to pending only from not existing;
\* once done, no poll changes its state, its result or its error, whatever the
\* service then says of the operation.
C14_OperationForwardOnly ==
  [][\A c \in EngCallers :
       elog'[c] # <<>> =>
         /\ lro[c].state \in DoneStates => lro'[c] = lro[c]
         /\ lro[c].state = "pending" => lro'[c].state \in {"pending"} \cup DoneStates
         /\ (lro'[c].state = "pending" /\ lro[c].state # "pending") =>
              lro[c].state = "none"]_vars

\* C14 witness: a future done with its result, polled again by a call in flight
\* while the service no longer keeps the operation.
C14_Witness ==
  /\ epc[1] = "get"
  /\ lro[1] = DoneOk(Created(1))
  /\ svc[1] = Expired

\* operation_future.result() raised in call c.
OperationRaised(c) ==
  \E k \in DOMAIN elog[c] : elog[c][k] = Ext("operation.result", "error")

\* C19: when the create operation ends in error, create raises that error as the
\* operation carries it: the call ends there, with no handle, no get, and the
\* create_reasoning_engine RPC issued once.
C19_OperationErrorRaised ==
  \A c \in EngCallers :
    /\ (lro[c].state = "done_error" /\ epc[c] # "result") => OperationRaised(c)
    /\ OperationRaised(c) =>
         /\ epc[c] = "failed"
         /\ lro[c].state = "done_error"
         /\ err[c] = lro[c].error
         /\ err[c] \in OperationErrors
         /\ handle[c] = NoHandle
         /\ Issued(c, "get_reasoning_engine") = {}
         /\ Cardinality(Issued(c, "create_reasoning_engine")) = 1
         /\ elog[c][Len(elog[c])] = Ext("operation.result", "error")

\* C19 witness: a call ended by its operation's PermissionDenied, after an earlier
\* call had created a resource.
C19_Witness ==
  /\ OperationRaised(1)
  /\ err[1] = "PermissionDenied"
  /\ lro[1] = DoneError("PermissionDenied")
  /\ engines = {1}
  /\ ncalls = 2

\* C15: a create call for an object whose query attribute is missing or not
\* callable ends with TypeError, and one whose query has a signature that cannot
\* be introspected ends with ValueError (invalid query signature); in both cases
\* the call has made no storage and no transport call.
C15_QueryErrorsAreLocal ==
  \A c \in EngCallers :
    (/\ epc[c] # "idle"
     /\ python_version(inp[c]) \in _SUPPORTED_PYTHON_VERSIONS
     /\ inp[c].staging_bucket.scheme = "gs://") =>
      /\ inp[c].query \in {"missing", "not_callable"} =>
           (epc[c] = "failed" /\ err[c] = "TypeError:query" /\ elog[c] = <<>>)
      /\ inp[c].query = "bad_signature" =>
           (epc[c] = "failed" /\ err[c] = "ValueError:signature" /\ elog[c] = <<>>)
      /\ err[c] \in {"TypeError:query", "ValueError:signature"} =>
           (inp[c].query # "ok" /\ elog[c] = <<>>)

\* C15 witness: a call rejected for its query signature while an earlier call's
\* blobs are in the bucket, which it has not touched.
C15_Witness ==
  /\ epc[1] = "failed"
  /\ inp[1].query = "bad_signature"
  /\ err[1] = "ValueError:signature"
  /\ inp[1].cloneable
  /\ bucket.exists
  /\ sent[1] = NothingSent
  /\ blobs # NothingSent

PickleBlob == <<_DEFAULT_GCS_DIR_NAME, _BLOB_FILENAME>>

\* The exceptions of the checks create makes before it looks for clone().
BeforeClone ==
  {"ValueError:python_version", "ValueError:staging_bucket",
   "ValueError:staging_bucket_scheme", "TypeError:query", "ValueError:signature"}

\* The object a call must go on with: one clone() away from the caller's object
\* when that has clone(), the caller's object itself when not.
Deployed(c) == IF inp[c].cloneable THEN <<"app", 1>> ELSE <<"app", 0>>

\* C20: a create call for an object with clone() calls it once, after the checks
\* of the query attribute (a call those checks reject has not cloned) and before
\* the pickle is written; the pickle uploaded and the schema in the spec are of
\* that clone. Without clone() they are of the caller's object.
C20_CloneOnceBeforeUpload ==
  \A c \in EngCallers :
    epc[c] # "idle" =>
      /\ obj[c] = IF err[c] \in BeforeClone THEN <<"app", 0>> ELSE Deployed(c)
      /\ Issued(c, "write_pickle") # {} => obj[c] = Deployed(c)
      /\ sent[c][PickleBlob] # Absent =>
           sent[c][PickleBlob] = [kind |-> "pickle", data |-> Deployed(c)]
      /\ (respec[c] # NoSpec /\ ~warned[c]) =>
           respec[c].class_methods = <<[method |-> "query", of |-> Deployed(c)]>>

\* C20 witness: a call for an object with clone() that uploaded the pickle of the
\* clone and built the spec with the clone's schema.
C20_Witness ==
  /\ inp[1].cloneable
  /\ sent[1][PickleBlob] = [kind |-> "pickle", data |-> <<"app", 1>>]
  /\ blobs[PickleBlob] = sent[1][PickleBlob]
  /\ respec[1].class_methods = <<[method |-> "query", of |-> <<"app", 1>>]>>

\* C20 witness: a call for an object with clone() rejected for its query
\* signature, no clone made.
C20_WitnessNoClone ==
  /\ inp[1].cloneable
  /\ err[1] = "ValueError:signature"
  /\ obj[1] = <<"app", 0>>

\* C18 (as claimed): from the end of a call's uploads up to its
\* create_reasoning_engine RPC, every blob the call wrote holds what the call
\* wrote, also while another create call with the same staging bucket and
\* gcs_dir_name is running.
C18_BundleUnchangedUntilRpc ==
  \A c \in EngCallers :
    epc[c] = "create_rpc" =>
      \A b \in BlobNames : sent[c][b] # Absent => blobs[b] = sent[c][b]

BlobWrites == {"write_pickle", "upload_requirements", "upload_archive"}

\* The staging bucket is the one call c asked for.
ResolvedFor(c) == bucket.exists /\ bucket.name = bucket_name(inp[c].staging_bucket)

\* C21: the first storage call of a create call is get_bucket, made once. When
\* it finds the bucket, the call issues no create_bucket; when it answers
\* NotFound, create_bucket is the next call, made once, and a bucket it creates
\* has the name asked for and the location the call was given. Every blob write
\* of the call comes after the get_bucket or the create_bucket that succeeded,
\* with the bucket in existence under the name asked for.
C21_BucketBeforeWrites ==
  \A c \in EngCallers :
    /\ elog[c] # <<>> => elog[c][1].call = "get_bucket"
    /\ \A k \in Issued(c, "get_bucket") : k = 1
    /\ \A k \in Issued(c, "create_bucket") :
         k = 2 /\ elog[c][1] = Ext("get_bucket", "NotFound")
    /\ (elog[c] # <<>> /\ elog[c][1] = Ext("get_bucket", "ok")) =>
         (Issued(c, "create_bucket") = {} /\ ResolvedFor(c))
    /\ (elog[c] # <<>> /\ elog[c][1] = Ext("get_bucket", "NotFound")) =>
         (epc[c] = "create_bucket" \/ Issued(c, "create_bucket") = {2})
    /\ (Len(elog[c]) >= 2 /\ elog[c][2] = Ext("create_bucket", "ok")) =>
         (ResolvedFor(c) /\ bucket.location = inp[c].location)
    /\ \A k \in DOMAIN elog[c] :
         elog[c][k].call \in BlobWrites =>
           /\ ResolvedFor(c)
           /\ \E j \in 1..(k - 1) :
                elog[c][j] \in {Ext("get_bucket", "ok"), Ext("create_bucket", "ok")}
           /\ \A j \in 1..(k - 1) :
                elog[c][j].call \in {"get_bucket", "create_bucket"} =>
                  elog[c][j] \in {Ext("get_bucket", "ok"), Ext("get_bucket", "NotFound"),
                                  Ext("create_bucket", "ok")}

\* C21 witness: a call given one location that found the bucket another call had
\* created in another location, used it and wrote its blobs, while the other
\* call's log shows the one create_bucket.
C21_Witness ==
  /\ Len(elog[1]) >= 2
  /\ Len(elog[2]) >= 1
  /\ elog[1][1] = Ext("get_bucket", "NotFound")
  /\ elog[1][2] = Ext("create_bucket", "ok")
  /\ bucket.location = inp[1].location
  /\ inp[2].location # bucket.location
  /\ elog[2][1] = Ext("get_bucket", "ok")
  /\ Issued(2, "create_bucket") = {}
  /\ Issued(2, "upload_archive") # {}

ArchiveBlob == <<_DEFAULT_GCS_DIR_NAME, _EXTRA_PACKAGES_FILE>>

\* The call has come out of _prepare.
PastPrepare(c) ==
  \/ epc[c] \in {"create_rpc", "result", "get", "done"}
  \/ Issued(c, "create_reasoning_engine") # {}

\* The URI names a blob of the staging bucket that call c wrote, and the blob
\* holds what the call wrote.
PointsAtOwnBlob(c, uri) ==
  /\ uri # NoUri
  /\ uri[1] = "gs://"
  /\ bucket.exists
  /\ uri[2] = bucket.name
  /\ <<uri[3], uri[4]>> \in BlobNames
  /\ sent[c][<<uri[3], uri[4]>>] # Absent
  /\ blobs[<<uri[3], uri[4]>>] = sent[c][<<uri[3], uri[4]>>]

\* C22: with one create call at a time, a call that has come out of _prepare has
\* written the pickle of its object and an archive of its extra packages (an
\* archive without members when there are none), and requirements.txt exactly
\* for non-empty requirements; a call past the local checks that has not come
\* out of _prepare is in it or had a storage call fail. The spec a call builds
\* names the pickle blob and the archive blob, and the requirements blob exactly
\* when the call wrote one; each URI it carries points at a blob this call wrote.
C22_SpecPointsAtOwnBlobs ==
  \A c \in EngCallers :
    /\ PastPrepare(c) =>
         /\ sent[c][PickleBlob] = [kind |-> "pickle", data |-> obj[c]]
         /\ sent[c][ArchiveBlob].kind = "tar"
         /\ Len(sent[c][ArchiveBlob].data) = Len(inp[c].extra_packages)
         /\ \A k \in DOMAIN inp[c].extra_packages :
              sent[c][ArchiveBlob].data[k] = inp[c].extra_packages[k].path
         /\ (sent[c][RequirementsBlob] # Absent) <=> (reqs[c] # <<>>)
    /\ (epc[c] = "failed" /\ err[c] \notin LocalErrors /\ ~PastPrepare(c)) =>
         FailedInCall(c)
    /\ respec[c] # NoSpec =>
         /\ PastPrepare(c)
         /\ PointsAtOwnBlob(c, respec[c].pickle_object_gcs_uri)
         /\ respec[c].pickle_object_gcs_uri[4] = _BLOB_FILENAME
         /\ PointsAtOwnBlob(c, respec[c].dependency_files_gcs_uri)
         /\ respec[c].dependency_files_gcs_uri[4] = _EXTRA_PACKAGES_FILE
         /\ (respec[c].requirements_gcs_uri # NoUri) <=>
              (sent[c][RequirementsBlob] # Absent)
         /\ respec[c].requirements_gcs_uri # NoUri =>
              /\ respec[c].requirements_gcs_uri[4] = _REQUIREMENTS_FILE
              /\ PointsAtOwnBlob(c, respec[c].requirements_gcs_uri)

\* C22 witness: the spec of a second call, with no extra packages and no
\* requirements: it names the archive without members the call uploaded, and not
\* the requirements.txt an earlier call left in the bucket.
C22_Witness ==
  /\ ncalls = 2
  /\ respec[1] # NoSpec
  /\ inp[1].extra_packages = <<>>
  /\ sent[1][ArchiveBlob] = [kind |-> "tar", data |-> <<>>]
  /\ blobs[ArchiveBlob] = sent[1][ArchiveBlob]
  /\ respec[1].dependency_files_gcs_uri =
       <<"gs://", "bkt", "reasoning_engine", "dependencies.tar.gz">>
  /\ respec[1].requirements_gcs_uri = NoUri
  /\ blobs[RequirementsBlob] # Absent

====
